---- MODULE Spec2Model ----
(***************************************************************************)
(* A model of the in-memory music catalog of musicListnerApi.go: the map   *)
(* users (secret code -> User), the identifier source randSrc, the mutex   *)
(* mu, and the eight HTTP handlers that read and write them.               *)
(*                                                                         *)
(* Identifiers are integers.  A positive integer n stands for the decimal  *)
(* string of the n-th value drawn from randSrc; the values drawn are taken *)
(* to be pairwise distinct (randSrc.Int63() is a 63-bit draw).  0 stands   *)
(* for the empty string (an absent field or query parameter) and the       *)
(* negative integers for strings a caller makes up.  A caller may also     *)
(* send back any identifier that was already issued.                       *)
(***************************************************************************)
EXTENDS Integers, Sequences, FiniteSets, TLC

\* ------------------------------------------------------------- bounds

\* Cap on the number of identifiers drawn from randSrc in one run.
MaxGen == 8
\* The number of callers that run handlers side by side.
NumProcs == 2

VARIABLES
    users,      \* map secret code -> User                      (line 34)
    randSrc,    \* number of values drawn from randSrc so far   (line 37)
    mu,         \* whether the mutex is held                   (line 36)
    req,        \* the request of the handler that holds mu
    resp,       \* the response that handler wrote
    pc,         \* for each concurrent caller, where its handler stands
    creq,       \* for each concurrent caller, its request
    local,      \* for each concurrent caller, its handler's user, exists
    cresp,      \* for each concurrent caller, the response written
    batch,      \* the calls to /createPlaylist started side by side
    serial      \* the calls so far run one after another, in lock order

seqvars == <<req, resp>>

concvars == <<pc, creq, local, cresp, batch, serial>>

vars == <<users, randSrc, mu, req, resp, pc, creq, local, cresp, batch, serial>>

\* ------------------------------------------------------------- data

Song(id, name, composer, url) ==
    [ID |-> id, Name |-> name, Composer |-> composer, URL |-> url]

Playlist(id, name, songs) ==
    [ID |-> id, Name |-> name, Songs |-> songs]

User(id, secretCode, name, email, pls) ==
    [ID |-> id, SecretCode |-> secretCode, Name |-> name, Email |-> email,
     Playlists |-> pls]

\* The song literal of lines 76-81 and 103-108.
DefaultSong(id) ==
    Song(id, "Default Song", "Default Composer", "http://default.url")

\* generateID: draws the next value of randSrc and formats it.
GenerateID(rs) ==
    [id |-> rs + 1, randSrc |-> rs + 1]

\* sendError: the status and the {"error": message} body.
SendError(message, statusCode) ==
    [status |-> statusCode, body |-> [error |-> message]]

\* json.NewEncoder(w).Encode(v) with no WriteHeader before it: status 200.
Encode(v) ==
    [status |-> "StatusOK", body |-> v]

Outcome(us, rs, r) ==
    [users |-> us, randSrc |-> rs, resp |-> r]

\* A removal that drops the tail too: append(s[:j]) with the rest forgotten.
RemoveAtTruncates(s, j) ==
    SubSeq(s, 1, j - 1)

\* s[:j] ++ s[j+1:] for the 1-based index j: what append leaves in the
\* slice it returns.
RemoveAt(s, j) ==
    SubSeq(s, 1, j - 1) \o SubSeq(s, j + 1, Len(s))

\* The first index of s whose element has identifier id, 0 when none has.
IndexOfID(s, id) ==
    IF \E k \in 1..Len(s) : s[k].ID = id
    THEN CHOOSE k \in 1..Len(s) :
            /\ s[k].ID = id
            /\ \A m \in 1..(k - 1) : s[m].ID # id
    ELSE 0

\* ------------------------------------------------------------- handlers

\* user, exists := users[secretCode]: the stored User, or the zero User.
ZeroUser == User(0, 0, "", "", <<>>)

Lookup(us, secretCode) ==
    IF secretCode \in DOMAIN us
    THEN [exists |-> TRUE, user |-> us[secretCode]]
    ELSE [exists |-> FALSE, user |-> ZeroUser]

\* An assignment that replaces the whole map by the one record.
StoreAlone(us, secretCode, user) ==
    [k \in {secretCode} |-> user]

\* users[secretCode] = user
Store(us, secretCode, user) ==
    [k \in (DOMAIN us) \cup {secretCode} |->
        IF k = secretCode THEN user ELSE us[k]]

\* What a handler does once it holds the lookup result l: whether it
\* assigns users[key], the user it assigns, the state of randSrc and the
\* response.
Effect(store, key, user, rs, r) ==
    [store |-> store, key |-> key, user |-> user, randSrc |-> rs, resp |-> r]

NoEffect(rs, r) ==
    Effect(FALSE, 0, ZeroUser, rs, r)

\* The state a handler leaves: the effect applied to the map.
Apply(us, e) ==
    Outcome(IF e.store THEN Store(us, e.key, e.user) ELSE us, e.randSrc, e.resp)

\* A loginHandler that leaves the email out of the user it returns.
LoginBodyBlanksEmail(l, rs, r) ==
    IF l.exists
    THEN NoEffect(rs, Encode([l.user EXCEPT !.Email = ""]))
    ELSE NoEffect(rs, SendError("Invalid secret code", "StatusUnauthorized"))

\* loginHandler, lines 51-56.
LoginBody(l, rs, r) ==
    IF l.exists
    THEN NoEffect(rs, Encode(l.user))
    ELSE NoEffect(rs, SendError("Invalid secret code", "StatusUnauthorized"))

\* A viewProfile that answers an unknown secret code as a missing resource.
ViewProfileBodyNotFound(l, rs, r) ==
    IF l.exists
    THEN NoEffect(rs, Encode(l.user))
    ELSE NoEffect(rs, SendError("Invalid secret code", "StatusNotFound"))

\* viewProfile, lines 158-163.
ViewProfileBody(l, rs, r) ==
    IF l.exists
    THEN NoEffect(rs, Encode(l.user))
    ELSE NoEffect(rs, SendError("Invalid secret code", "StatusUnauthorized"))

\* A registerHandler that keeps the secret code of the request body when it
\* carries one.
RegisterBodyKeepsCode(rs, r) ==
    IF ~r.body.ok
    THEN NoEffect(rs, SendError("Invalid request body", "StatusBadRequest"))
    ELSE LET g1 == GenerateID(rs)
             g2 == GenerateID(g1.randSrc)
             g3 == GenerateID(g2.randSrc)
             g4 == GenerateID(g3.randSrc)
             defaultPlaylist == Playlist(g3.id, "Default", <<DefaultSong(g4.id)>>)
             user == [r.body.val EXCEPT
                        !.ID = g1.id,
                        !.SecretCode = IF @ # 0 THEN @ ELSE g2.id,
                        !.Playlists = Append(@, defaultPlaylist)]
         IN  Effect(TRUE, user.SecretCode, user, g4.randSrc, Encode(user))

\* A registerHandler without the return of line 66: it answers the error
\* and goes on to store the user it could not decode.
RegisterBodyNoReturn(rs, r) ==
    LET g1 == GenerateID(rs)
        g2 == GenerateID(g1.randSrc)
        g3 == GenerateID(g2.randSrc)
        g4 == GenerateID(g3.randSrc)
        defaultPlaylist == Playlist(g3.id, "Default", <<DefaultSong(g4.id)>>)
        user == [r.body.val EXCEPT
                   !.ID = g1.id,
                   !.SecretCode = g2.id,
                   !.Playlists = Append(@, defaultPlaylist)]
    IN  Effect(TRUE, user.SecretCode, user, g4.randSrc,
               IF r.body.ok THEN Encode(user)
               ELSE SendError("Invalid request body", "StatusBadRequest"))

\* registerHandler, lines 63-87.  r.body.val is the User the decoder
\* filled from the request body: every field the caller sent is in it.
RegisterBody(rs, r) ==
    IF ~r.body.ok
    THEN NoEffect(rs, SendError("Invalid request body", "StatusBadRequest"))
    ELSE LET g1 == GenerateID(rs)
             g2 == GenerateID(g1.randSrc)
             g3 == GenerateID(g2.randSrc)
             g4 == GenerateID(g3.randSrc)
             defaultPlaylist == Playlist(g3.id, "Default", <<DefaultSong(g4.id)>>)
             user == [r.body.val EXCEPT
                        !.ID = g1.id,
                        !.SecretCode = g2.id,
                        !.Playlists = Append(@, defaultPlaylist)]
         IN  Effect(TRUE, user.SecretCode, user, g4.randSrc, Encode(user))

\* A createPlaylist that puts the new playlist in front of the others.
CreatePlaylistInFront(l, rs, r) ==
    IF l.exists
    THEN LET g1 == GenerateID(rs)
             g2 == GenerateID(g1.randSrc)
             newPlaylist == Playlist(g1.id, r.playlistName, <<DefaultSong(g2.id)>>)
             user == [l.user EXCEPT !.Playlists = <<newPlaylist>> \o @]
         IN  Effect(TRUE, r.secretCode, user, g2.randSrc, Encode(newPlaylist))
    ELSE NoEffect(rs, SendError("Invalid secret code", "StatusUnauthorized"))

\* createPlaylist, lines 95-119.
CreatePlaylistBody(l, rs, r) ==
    IF l.exists
    THEN LET g1 == GenerateID(rs)
             g2 == GenerateID(g1.randSrc)
             newPlaylist == Playlist(g1.id, r.playlistName, <<DefaultSong(g2.id)>>)
             user == [l.user EXCEPT !.Playlists = Append(@, newPlaylist)]
         IN  Effect(TRUE, r.secretCode, user, g2.randSrc, Encode(newPlaylist))
    ELSE NoEffect(rs, SendError("Invalid secret code", "StatusUnauthorized"))

\* The playlist at which the loops of lines 132-148 return: the first one
\* with the identifier playlistID that holds exactly one song (line 134) or
\* a song with the identifier songID (line 140); 0 when the loops run out.
DeleteSongStop(pls, playlistID, songID) ==
    IF \E i \in 1..Len(pls) :
          /\ pls[i].ID = playlistID
          /\ (Len(pls[i].Songs) = 1 \/ IndexOfID(pls[i].Songs, songID) # 0)
    THEN CHOOSE i \in 1..Len(pls) :
            /\ pls[i].ID = playlistID
            /\ (Len(pls[i].Songs) = 1 \/ IndexOfID(pls[i].Songs, songID) # 0)
            /\ \A m \in 1..(i - 1) :
                  ~ /\ pls[m].ID = playlistID
                    /\ (Len(pls[m].Songs) = 1 \/ IndexOfID(pls[m].Songs, songID) # 0)
    ELSE 0

\* What the loop variable playlist holds at line 143.  Its Songs slice keeps
\* the length it had before line 141, over the array that append shifted in
\* place: the songs after j moved one place down and the last one is there
\* twice.
StalePlaylist(playlist, j) ==
    [playlist EXCEPT !.Songs = RemoveAt(@, j) \o <<@[Len(@)]>>]

\* A deleteSongFromPlaylist without the check of line 134.
DeleteSongUnguarded(l, rs, r) ==
    LET pls == l.user.Playlists
        i == IF l.exists THEN DeleteSongStop(pls, r.playlistID, r.songID) ELSE 0
        j == IF i = 0 THEN 0 ELSE IndexOfID(pls[i].Songs, r.songID)
    IN  IF j = 0
        THEN NoEffect(rs, SendError("Invalid request", "StatusBadRequest"))
        ELSE LET user == [l.user EXCEPT !.Playlists[i].Songs = RemoveAt(@, j)]
             IN  Effect(TRUE, r.secretCode, user, rs,
                        Encode(StalePlaylist(pls[i], j)))

\* A deleteSongFromPlaylist that tells the caller which part did not
\* resolve.
DeleteSongNamesFailure(l, rs, r) ==
    LET pls == l.user.Playlists
        i == IF l.exists THEN DeleteSongStop(pls, r.playlistID, r.songID) ELSE 0
    IN  IF ~l.exists
        THEN NoEffect(rs, SendError("Invalid secret code", "StatusUnauthorized"))
        ELSE IF IndexOfID(pls, r.playlistID) = 0
        THEN NoEffect(rs, SendError("Invalid playlist ID", "StatusNotFound"))
        ELSE IF i = 0
        THEN NoEffect(rs, SendError("Invalid song ID", "StatusNotFound"))
        ELSE IF Len(pls[i].Songs) = 1
        THEN NoEffect(rs, SendError("Playlist cannot be empty", "StatusBadRequest"))
        ELSE LET j == IndexOfID(pls[i].Songs, r.songID)
                 user == [l.user EXCEPT !.Playlists[i].Songs = RemoveAt(@, j)]
             IN  Effect(TRUE, r.secretCode, user, rs,
                        Encode(StalePlaylist(pls[i], j)))

\* deleteSongFromPlaylist, lines 127-151.
DeleteSongFromPlaylistBody(l, rs, r) ==
    LET pls == l.user.Playlists
        i == IF l.exists THEN DeleteSongStop(pls, r.playlistID, r.songID) ELSE 0
    IN  IF i = 0
        THEN NoEffect(rs, SendError("Invalid request", "StatusBadRequest"))
        ELSE IF Len(pls[i].Songs) = 1
        THEN NoEffect(rs, SendError("Playlist cannot be empty", "StatusBadRequest"))
        ELSE LET j == IndexOfID(pls[i].Songs, r.songID)
                 user == [l.user EXCEPT !.Playlists[i].Songs = RemoveAt(@, j)]
             IN  Effect(TRUE, r.secretCode, user, rs,
                        Encode(StalePlaylist(pls[i], j)))

\* An addSongToPlaylist that keeps the identifier of the request body when
\* it carries one.
AddSongKeepsID(l, rs, r) ==
    IF ~r.body.ok
    THEN NoEffect(rs, SendError("Invalid request body", "StatusBadRequest"))
    ELSE IF ~l.exists
    THEN NoEffect(rs, SendError("Invalid secret code", "StatusUnauthorized"))
    ELSE LET i == IndexOfID(l.user.Playlists, r.playlistID)
         IN  IF i = 0
             THEN NoEffect(rs, SendError("Invalid playlist ID", "StatusNotFound"))
             ELSE LET g1 == GenerateID(rs)
                      newSong == [r.body.val EXCEPT !.ID = IF @ # 0 THEN @ ELSE g1.id]
                      user == [l.user EXCEPT
                                 !.Playlists[i].Songs = Append(@, newSong)]
                  IN  Effect(TRUE, r.secretCode, user, g1.randSrc, Encode(newSong))

\* An addSongToPlaylist that looks up the secret code and the playlist
\* before it decodes the body.
AddSongLooksUpFirst(l, rs, r) ==
    IF ~l.exists
    THEN NoEffect(rs, SendError("Invalid secret code", "StatusUnauthorized"))
    ELSE LET i == IndexOfID(l.user.Playlists, r.playlistID)
         IN  IF i = 0
             THEN NoEffect(rs, SendError("Invalid playlist ID", "StatusNotFound"))
             ELSE IF ~r.body.ok
             THEN NoEffect(rs, SendError("Invalid request body", "StatusBadRequest"))
             ELSE LET g1 == GenerateID(rs)
                      newSong == [r.body.val EXCEPT !.ID = g1.id]
                      user == [l.user EXCEPT
                                 !.Playlists[i].Songs = Append(@, newSong)]
                  IN  Effect(TRUE, r.secretCode, user, g1.randSrc, Encode(newSong))

\* addSongToPlaylist, lines 170-192.  r.body.val is the Song the decoder
\* filled from the request body.
AddSongToPlaylistBody(l, rs, r) ==
    IF ~r.body.ok
    THEN NoEffect(rs, SendError("Invalid request body", "StatusBadRequest"))
    ELSE IF ~l.exists
    THEN NoEffect(rs, SendError("Invalid secret code", "StatusUnauthorized"))
    ELSE LET i == IndexOfID(l.user.Playlists, r.playlistID)
         IN  IF i = 0
             THEN NoEffect(rs, SendError("Invalid playlist ID", "StatusNotFound"))
             ELSE LET g1 == GenerateID(rs)
                      newSong == [r.body.val EXCEPT !.ID = g1.id]
                      user == [l.user EXCEPT
                                 !.Playlists[i].Songs = Append(@, newSong)]
                  IN  Effect(TRUE, r.secretCode, user, g1.randSrc, Encode(newSong))

\* A deletePlaylist that refuses to remove a user's only playlist.
DeletePlaylistKeepsLast(l, rs, r) ==
    IF ~l.exists
    THEN NoEffect(rs, SendError("Invalid secret code", "StatusUnauthorized"))
    ELSE LET i == IndexOfID(l.user.Playlists, r.playlistID)
         IN  IF i = 0
             THEN NoEffect(rs, SendError("Invalid playlist ID", "StatusNotFound"))
             ELSE IF Len(l.user.Playlists) = 1
             THEN NoEffect(rs, SendError("Invalid request", "StatusBadRequest"))
             ELSE LET user == [l.user EXCEPT !.Playlists = RemoveAt(@, i)]
                  IN  Effect(TRUE, r.secretCode, user, rs, Encode(user))

\* deletePlaylist, lines 199-214.
DeletePlaylistBody(l, rs, r) ==
    IF ~l.exists
    THEN NoEffect(rs, SendError("Invalid secret code", "StatusUnauthorized"))
    ELSE LET i == IndexOfID(l.user.Playlists, r.playlistID)
         IN  IF i = 0
             THEN NoEffect(rs, SendError("Invalid playlist ID", "StatusNotFound"))
             ELSE LET user == [l.user EXCEPT !.Playlists = RemoveAt(@, i)]
                  IN  Effect(TRUE, r.secretCode, user, rs, Encode(user))

\* All the songs of a user, playlist after playlist (the order of the two
\* loops of lines 225-226).
RECURSIVE SongsOf(_)
SongsOf(pls) ==
    IF pls = <<>> THEN <<>> ELSE Head(pls).Songs \o SongsOf(Tail(pls))

\* A getSongDetail that keeps scanning after a match and answers with the
\* last song that has the identifier.
GetSongDetailLastMatch(l, rs, r) ==
    IF ~l.exists
    THEN NoEffect(rs, SendError("Invalid secret code", "StatusUnauthorized"))
    ELSE LET all == SongsOf(l.user.Playlists)
             ks == {k \in 1..Len(all) : all[k].ID = r.songID}
         IN  IF ks = {}
             THEN NoEffect(rs, SendError("Invalid song ID", "StatusNotFound"))
             ELSE NoEffect(rs, Encode(all[CHOOSE k \in ks : \A m \in ks : m <= k]))

\* getSongDetail, lines 221-236.
GetSongDetailBody(l, rs, r) ==
    IF ~l.exists
    THEN NoEffect(rs, SendError("Invalid secret code", "StatusUnauthorized"))
    ELSE LET all == SongsOf(l.user.Playlists)
             k == IndexOfID(all, r.songID)
         IN  IF k = 0
             THEN NoEffect(rs, SendError("Invalid song ID", "StatusNotFound"))
             ELSE NoEffect(rs, Encode(all[k]))

\* Each handler from mu.Lock() to the deferred mu.Unlock(): the lookup, the
\* body and the assignment to the map.
LoginHandler(us, rs, r) ==
    Apply(us, LoginBody(Lookup(us, r.secretCode), rs, r))

RegisterHandler(us, rs, r) ==
    Apply(us, RegisterBody(rs, r))

CreatePlaylist(us, rs, r) ==
    Apply(us, CreatePlaylistBody(Lookup(us, r.secretCode), rs, r))

DeleteSongFromPlaylist(us, rs, r) ==
    Apply(us, DeleteSongFromPlaylistBody(Lookup(us, r.secretCode), rs, r))

ViewProfile(us, rs, r) ==
    Apply(us, ViewProfileBody(Lookup(us, r.secretCode), rs, r))

AddSongToPlaylist(us, rs, r) ==
    Apply(us, AddSongToPlaylistBody(Lookup(us, r.secretCode), rs, r))

DeletePlaylist(us, rs, r) ==
    Apply(us, DeletePlaylistBody(Lookup(us, r.secretCode), rs, r))

GetSongDetail(us, rs, r) ==
    Apply(us, GetSongDetailBody(Lookup(us, r.secretCode), rs, r))

\* The routing table of main, lines 245-252.
Handle(us, rs, r) ==
    CASE r.op = "login" -> LoginHandler(us, rs, r)
      [] r.op = "register" -> RegisterHandler(us, rs, r)
      [] r.op = "viewProfile" -> ViewProfile(us, rs, r)
      [] r.op = "createPlaylist" -> CreatePlaylist(us, rs, r)
      [] r.op = "deleteSongFromPlaylist" -> DeleteSongFromPlaylist(us, rs, r)
      [] r.op = "addSongToPlaylist" -> AddSongToPlaylist(us, rs, r)
      [] r.op = "deletePlaylist" -> DeletePlaylist(us, rs, r)
      [] r.op = "getSongDetail" -> GetSongDetail(us, rs, r)

\* ------------------------------------------------------------- requests

\* A request: the route, the query parameters and the decoded body
\* (ok = FALSE when the decoder returns an error).
Request(op, secretCode, playlistID, songID, playlistName, body) ==
    [op |-> op, secretCode |-> secretCode, playlistID |-> playlistID,
     songID |-> songID, playlistName |-> playlistName, body |-> body]

NoBody == [ok |-> FALSE, val |-> ZeroUser]

Body(v) == [ok |-> TRUE, val |-> v]

NoRequest == Request("none", 0, 0, 0, "", NoBody)

NoResponse == [status |-> "none", body |-> [error |-> ""]]

PlaylistsOf(u) ==
    {u.Playlists[i] : i \in 1..Len(u.Playlists)}

PlaylistIDsOf(u) ==
    {p.ID : p \in PlaylistsOf(u)}

SongIDsOf(u) ==
    UNION {{p.Songs[j].ID : j \in 1..Len(p.Songs)} : p \in PlaylistsOf(u)}

AllPlaylistIDs(us) ==
    UNION {PlaylistIDsOf(us[k]) : k \in DOMAIN us}

AllSongIDs(us) ==
    UNION {SongIDsOf(us[k]) : k \in DOMAIN us}

PlaylistNames == {"Road Trip"}

UserNames == {"ann"}

\* The Playlists a caller puts in the body of /register: none, an empty
\* playlist, and two playlists that share an identifier and hold songs that
\* share identifiers.
BodyPlaylists ==
    { <<>>,
      <<Playlist(-1, "mine", <<>>)>>,
      <<Playlist(-1, "mine", <<Song(-1, "a", "", ""), Song(-2, "b", "", ""),
                                Song(-1, "c", "", "")>>),
        Playlist(-1, "more", <<Song(-2, "d", "", "")>>)>> }

\* The bodies of /register: an undecodable one, users that carry an
\* identifier and a secret code of the caller's choice (none, or those of
\* an existing user), and users that carry playlists.
RegisterBodies(us) ==
    {NoBody}
    \cup {Body(User(IF c = 0 THEN 0 ELSE us[c].ID, c, n, "a@x", <<>>)) :
            c \in (DOMAIN us) \cup {0}, n \in UserNames}
    \cup {Body(User(0, 0, n, "a@x", pls)) : n \in UserNames, pls \in BodyPlaylists}

\* The bodies of /addSongToPlaylist: an undecodable one, and songs with or
\* without an identifier of the caller's choice (that of a song the user
\* already has).
SongBodies(u) ==
    {NoBody} \cup {Body(Song(c, "X", "Y", "http://x")) : c \in SongIDsOf(u) \cup {0}}

\* The requests of a caller who holds no valid secret code: the empty
\* string where a secret code, a playlist or a song identifier goes.
AnonymousRequests ==
    {Request(op, 0, 0, 0, "", NoBody) :
        op \in {"login", "viewProfile", "deleteSongFromPlaylist",
                "deletePlaylist", "getSongDetail"}}
    \cup {Request("createPlaylist", 0, 0, 0, n, NoBody) : n \in PlaylistNames}
    \cup {Request("addSongToPlaylist", 0, 0, 0, "", b) : b \in SongBodies(ZeroUser)}

\* The requests of the caller who holds the secret code sc: the playlist
\* and song identifiers are those of the caller's own user or the empty
\* string; /getSongDetail is also asked for the songs of other users.
RequestsWith(us, sc) ==
    LET pids == PlaylistIDsOf(us[sc]) \cup {0}
        sids == SongIDsOf(us[sc]) \cup {0}
    IN  {Request("login", sc, 0, 0, "", NoBody),
         Request("viewProfile", sc, 0, 0, "", NoBody)}
        \cup {Request("createPlaylist", sc, 0, 0, n, NoBody) : n \in PlaylistNames}
        \cup {Request("deleteSongFromPlaylist", sc, p, s, "", NoBody) :
                p \in pids, s \in sids}
        \cup {Request("addSongToPlaylist", sc, p, 0, "", b) :
                p \in pids, b \in SongBodies(us[sc])}
        \cup {Request("deletePlaylist", sc, p, 0, "", NoBody) : p \in pids}
        \cup {Request("getSongDetail", sc, 0, s, "", NoBody) :
                s \in AllSongIDs(us) \cup {0}}

Requests(us) ==
    AnonymousRequests
    \cup {Request("register", 0, 0, 0, "", b) : b \in RegisterBodies(us)}
    \cup UNION {RequestsWith(us, sc) : sc \in DOMAIN us}

RequestsOf(us, op) == {r \in Requests(us) : r.op = op}

\* ------------------------------------------------------------- actions

Procs == 1..NumProcs

NoLookup == [exists |-> FALSE, user |-> ZeroUser]

NoBatch == [on |-> FALSE, secretCode |-> 0, base |-> <<>>, added |-> <<>>]

StoreInit ==
    /\ users = <<>>
    /\ randSrc = 0
    /\ mu = FALSE

Init ==
    /\ StoreInit
    /\ req = NoRequest
    /\ resp = NoResponse
    /\ pc = [p \in Procs |-> "idle"]
    /\ creq = [p \in Procs |-> NoRequest]
    /\ local = [p \in Procs |-> NoLookup]
    /\ cresp = [p \in Procs |-> NoResponse]
    /\ batch = NoBatch
    /\ serial = Outcome(<<>>, 0, NoResponse)

\* A handler run for the request r: mu.Lock(), then the body, which leaves
\* the state out and the response written.  The deferred mu.Unlock() is
\* the step Return.
Serve(r, out) ==
    /\ out.randSrc <= MaxGen
    /\ mu' = TRUE
    /\ users' = out.users
    /\ randSrc' = out.randSrc
    /\ req' = r
    /\ resp' = out.resp
    /\ UNCHANGED concvars

\* The deferred mu.Unlock() of every handler: the handler returns.
Return ==
    /\ mu
    /\ mu' = FALSE
    /\ req' = NoRequest
    /\ resp' = NoResponse
    /\ UNCHANGED <<users, randSrc>>
    /\ UNCHANGED concvars

Login ==
    /\ ~mu
    /\ \E r \in RequestsOf(users, "login") :
          Serve(r, LoginHandler(users, randSrc, r))

Register ==
    /\ ~mu
    /\ \E r \in RequestsOf(users, "register") :
          Serve(r, RegisterHandler(users, randSrc, r))

View ==
    /\ ~mu
    /\ \E r \in RequestsOf(users, "viewProfile") :
          Serve(r, ViewProfile(users, randSrc, r))

Create ==
    /\ ~mu
    /\ \E r \in RequestsOf(users, "createPlaylist") :
          Serve(r, CreatePlaylist(users, randSrc, r))

RemoveSong ==
    /\ ~mu
    /\ \E r \in RequestsOf(users, "deleteSongFromPlaylist") :
          Serve(r, DeleteSongFromPlaylist(users, randSrc, r))

AddSong ==
    /\ ~mu
    /\ \E r \in RequestsOf(users, "addSongToPlaylist") :
          Serve(r, AddSongToPlaylist(users, randSrc, r))

RemovePlaylist ==
    /\ ~mu
    /\ \E r \in RequestsOf(users, "deletePlaylist") :
          Serve(r, DeletePlaylist(users, randSrc, r))

SongDetail ==
    /\ ~mu
    /\ \E r \in RequestsOf(users, "getSongDetail") :
          Serve(r, GetSongDetail(users, randSrc, r))

Next ==
    \/ Login
    \/ Register
    \/ View
    \/ Create
    \/ RemoveSong
    \/ AddSong
    \/ RemovePlaylist
    \/ SongDetail
    \/ Return

Spec == Init /\ [][Next]_vars

\* ------------------------------------------------- concurrent callers

\* The identifiers the concurrent callers may draw: enough for one
\* registration and one playlist for each caller.
ConcMaxGen == 4 + 2 * NumProcs

\* The requests the concurrent callers send: for each valid secret code
\* every route with the identifiers of that user's playlists and songs, a
\* /login with no secret code, and a /register with and without a body
\* that decodes.
ConcRequestsWith(us, sc) ==
    {Request("login", sc, 0, 0, "", NoBody),
     Request("viewProfile", sc, 0, 0, "", NoBody)}
    \cup {Request("createPlaylist", sc, 0, 0, n, NoBody) : n \in PlaylistNames}
    \cup {Request("deleteSongFromPlaylist", sc, p, s, "", NoBody) :
            p \in PlaylistIDsOf(us[sc]), s \in SongIDsOf(us[sc])}
    \cup {Request("addSongToPlaylist", sc, p, 0, "", Body(Song(0, "X", "Y", "http://x"))) :
            p \in PlaylistIDsOf(us[sc])}
    \cup {Request("deletePlaylist", sc, p, 0, "", NoBody) : p \in PlaylistIDsOf(us[sc])}
    \cup {Request("getSongDetail", sc, 0, s, "", NoBody) : s \in SongIDsOf(us[sc])}

ConcRequests(us) ==
    {Request("login", 0, 0, 0, "", NoBody),
     Request("register", 0, 0, 0, "", NoBody)}
    \cup {Request("register", 0, 0, 0, "", Body(User(0, 0, n, "a@x", <<>>))) :
            n \in UserNames}
    \cup UNION {ConcRequestsWith(us, sc) : sc \in DOMAIN us}

\* Whether the handler of r reads users[secretCode] before anything else
\* it does to the store: registerHandler never does, addSongToPlaylist
\* returns at line 176 before it would.
ReadsUser(r) ==
    /\ r.op # "register"
    /\ ~(r.op = "addSongToPlaylist" /\ ~r.body.ok)

\* The body of the handler of r, from the lookup result l.
BodyOf(l, rs, r) ==
    CASE r.op = "login" -> LoginBody(l, rs, r)
      [] r.op = "register" -> RegisterBody(rs, r)
      [] r.op = "viewProfile" -> ViewProfileBody(l, rs, r)
      [] r.op = "createPlaylist" -> CreatePlaylistBody(l, rs, r)
      [] r.op = "deleteSongFromPlaylist" -> DeleteSongFromPlaylistBody(l, rs, r)
      [] r.op = "addSongToPlaylist" -> AddSongToPlaylistBody(l, rs, r)
      [] r.op = "deletePlaylist" -> DeletePlaylistBody(l, rs, r)
      [] r.op = "getSongDetail" -> GetSongDetailBody(l, rs, r)

\* How many identifiers the handler of r draws at most: registerHandler at
\* lines 69, 70, 73 and 77, createPlaylist at lines 100 and 104,
\* addSongToPlaylist at line 182.
Draws(r) ==
    CASE r.op = "register" /\ r.body.ok -> 4
      [] r.op = "createPlaylist" -> 2
      [] r.op = "addSongToPlaylist" /\ r.body.ok -> 1
      [] OTHER -> 0

\* The identifiers the handlers of the callers Q may still draw: those of
\* the requests sent whose handler has not run its body yet.
RECURSIVE PendingDraws(_)
PendingDraws(Q) ==
    IF Q = {}
    THEN 0
    ELSE LET q == CHOOSE q \in Q : TRUE
         IN  (IF pc[q] \in {"lock", "decode", "lookup", "body"}
              THEN Draws(creq[q]) ELSE 0)
             + PendingDraws(Q \ {q})

\* A caller sends a request: net/http starts the handler in a goroutine of
\* its own, which stands at mu.Lock().  When every caller stands there, the
\* calls that follow run side by side: batch keeps the users they start
\* from.
Call(p) ==
    /\ pc[p] = "idle"
    /\ \E r \in ConcRequests(users) :
          /\ randSrc + PendingDraws(Procs) + Draws(r) <= ConcMaxGen
          /\ creq' = [creq EXCEPT ![p] = r]
    /\ pc' = [pc EXCEPT ![p] = "lock"]
    /\ batch' = IF \A q \in Procs \ {p} : pc[q] = "lock"
                THEN [on |-> TRUE, secretCode |-> 0, base |-> users, added |-> <<>>]
                ELSE NoBatch
    /\ UNCHANGED <<users, randSrc, mu, local, cresp, serial, seqvars>>

\* A handler that goes on without waiting for the mutex.
CanLockAlways(p) ==
    TRUE

\* mu.Lock() returns once no other handler holds mu.
CanLock(p) ==
    ~mu

\* Whether r is one more /createPlaylist of the batch b: a valid secret
\* code, the one the batch's earlier calls sent.
InBatch(b, r) ==
    /\ b.on
    /\ r.op = "createPlaylist"
    /\ r.secretCode \in DOMAIN b.base
    /\ b.secretCode \in {0, r.secretCode}

\* Whether the handler of r reads the request body: registerHandler at
\* line 64, addSongToPlaylist at line 174.
ReadsBody(r) ==
    r.op \in {"register", "addSongToPlaylist"}

\* mu.Lock() returns: the handler holds mu and goes on with the request it
\* was started for, whose query parameters and body were fixed when the
\* caller sent it.
Lock(p) ==
    /\ pc[p] = "lock"
    /\ CanLock(p)
    /\ mu' = TRUE
    /\ LET r == creq[p]
       IN  /\ serial' = Handle(serial.users, serial.randSrc, r)
           /\ pc' = [pc EXCEPT ![p] = IF ReadsBody(r) THEN "decode"
                                      ELSE IF ReadsUser(r) THEN "lookup"
                                      ELSE "body"]
           /\ batch' = IF InBatch(batch, r)
                       THEN [batch EXCEPT !.secretCode = r.secretCode]
                       ELSE NoBatch
    /\ UNCHANGED <<users, randSrc, creq, local, cresp, seqvars>>

\* json.NewDecoder(r.Body).Decode returns: the body has come in over the
\* connection, or the read has failed.  The handler holds mu while it
\* waits for the client, and the server of line 253 sets no read timeout.
Decode(p) ==
    /\ pc[p] = "decode"
    /\ pc' = [pc EXCEPT ![p] = IF ReadsUser(creq[p]) THEN "lookup" ELSE "body"]
    /\ UNCHANGED <<users, randSrc, mu, creq, local, cresp, batch, serial, seqvars>>

\* user, exists := users[secretCode]
LookupUser(p) ==
    /\ pc[p] = "lookup"
    /\ local' = [local EXCEPT ![p] = Lookup(users, creq[p].secretCode)]
    /\ pc' = [pc EXCEPT ![p] = "body"]
    /\ UNCHANGED <<users, randSrc, mu, creq, cresp, batch, serial, seqvars>>

\* The rest of the handler: the identifiers drawn, users[secretCode] = user
\* and the response written.
RunBody(p) ==
    /\ pc[p] = "body"
    /\ LET e == BodyOf(local[p], randSrc, creq[p])
       IN  /\ users' = IF e.store THEN Store(users, e.key, e.user) ELSE users
           /\ randSrc' = e.randSrc
           /\ cresp' = [cresp EXCEPT ![p] = e.resp]
    /\ pc' = [pc EXCEPT ![p] = "unlock"]
    /\ UNCHANGED <<mu, creq, local, batch, serial, seqvars>>

\* The deferred mu.Unlock(): the handler returns and the caller has its
\* response.
Unlock(p) ==
    /\ pc[p] = "unlock"
    /\ mu' = FALSE
    /\ pc' = [pc EXCEPT ![p] = "idle"]
    /\ batch' = IF batch.on
                THEN [batch EXCEPT !.added = Append(@, cresp[p].body)]
                ELSE batch
    /\ creq' = [creq EXCEPT ![p] = NoRequest]
    /\ local' = [local EXCEPT ![p] = NoLookup]
    /\ cresp' = [cresp EXCEPT ![p] = NoResponse]
    /\ UNCHANGED <<users, randSrc, serial, seqvars>>

ConcNext ==
    \E p \in Procs :
        \/ Call(p)
        \/ Lock(p)
        \/ Decode(p)
        \/ LookupUser(p)
        \/ RunBody(p)
        \/ Unlock(p)

ConcSpec == Init /\ [][ConcNext]_vars

\* ------------------------------------------------------------- claims

\* Every identifier in the store: users, secret codes, playlists, songs.
AllIDs(us) ==
    {us[k].ID : k \in DOMAIN us} \cup (DOMAIN us)
    \cup AllPlaylistIDs(us) \cup AllSongIDs(us)

\* What callers may send as a secret code: any identifier issued so far,
\* the empty string, a made-up string.
AnySecretCode == (-1)..randSrc

\* C1: in every reachable state every playlist of every stored user holds
\* at least one song.
C1_NoEmptyPlaylist ==
    \A k \in DOMAIN users :
        \A i \in 1..Len(users[k].Playlists) :
            Len(users[k].Playlists[i].Songs) >= 1

\* C2: a deleteSongFromPlaylist with a valid secret code and a playlist
\* identifier that resolves (first match) to a playlist of exactly one song
\* answers "Playlist cannot be empty" and changes nothing in the store,
\* whatever the song identifier.
C2_SoleSongRemovalRejected ==
    ~mu =>
    \A r \in RequestsOf(users, "deleteSongFromPlaylist") :
        LET l == Lookup(users, r.secretCode)
            i == IndexOfID(l.user.Playlists, r.playlistID)
            out == DeleteSongFromPlaylist(users, randSrc, r)
        IN  (l.exists /\ i # 0 /\ Len(l.user.Playlists[i].Songs) = 1) =>
                /\ out.resp.status = "StatusBadRequest"
                /\ out.resp.body = [error |-> "Playlist cannot be empty"]
                /\ out.users = users
                /\ Len(out.users[r.secretCode].Playlists[i].Songs) = 1

C2_Witness ==
    /\ mu
    /\ req.op = "deleteSongFromPlaylist"
    /\ resp.body = [error |-> "Playlist cannot be empty"]
    /\ req.secretCode \in DOMAIN users
    /\ req.songID \in SongIDsOf(users[req.secretCode])
    /\ LET pls == users[req.secretCode].Playlists
       IN  Len(pls[IndexOfID(pls, req.playlistID)].Songs) = 1

\* C3: a deleteSongFromPlaylist with a valid secret code, a playlist
\* identifier that resolves (first match) to a playlist of two or more songs
\* and the identifier of a song in it succeeds; the stored playlist loses
\* exactly the first song with that identifier and keeps the others in
\* order; no other playlist and no other user changes.
C3_RemovesExactlyOneSong ==
    ~mu =>
    \A r \in RequestsOf(users, "deleteSongFromPlaylist") :
        LET l == Lookup(users, r.secretCode)
            pls == l.user.Playlists
            i == IndexOfID(pls, r.playlistID)
            out == DeleteSongFromPlaylist(users, randSrc, r)
        IN  (/\ l.exists
             /\ i # 0
             /\ Len(pls[i].Songs) >= 2
             /\ \E j \in 1..Len(pls[i].Songs) : pls[i].Songs[j].ID = r.songID) =>
                LET old == pls[i].Songs
                    new == out.users[r.secretCode].Playlists[i].Songs
                    j == CHOOSE j \in 1..Len(old) :
                            /\ old[j].ID = r.songID
                            /\ \A m \in 1..(j - 1) : old[m].ID # r.songID
                IN  /\ out.resp.status = "StatusOK"
                    /\ Len(new) = Len(old) - 1
                    /\ \A m \in 1..Len(new) :
                          new[m] = IF m < j THEN old[m] ELSE old[m + 1]
                    /\ Len(out.users[r.secretCode].Playlists) = Len(pls)
                    /\ \A m \in 1..Len(pls) :
                          m # i => out.users[r.secretCode].Playlists[m] = pls[m]
                    /\ DOMAIN out.users = DOMAIN users
                    /\ \A k \in DOMAIN users :
                          k # r.secretCode => out.users[k] = users[k]

C3_Witness ==
    /\ mu
    /\ req.op = "deleteSongFromPlaylist"
    /\ resp.status = "StatusOK"
    /\ LET pls == users[req.secretCode].Playlists
           now == pls[IndexOfID(pls, req.playlistID)].Songs
       IN  /\ Len(now) >= 2
           /\ \E m \in 1..Len(now) : now[m].ID = req.songID

\* C4: the playlist a successful deleteSongFromPlaylist returns has the
\* song sequence of a playlist stored for that user, under the identifier
\* of the request, after the call.
C4_ReturnsPostRemovalState ==
    (mu /\ req.op = "deleteSongFromPlaylist" /\ resp.status = "StatusOK") =>
        LET pls == users[req.secretCode].Playlists
        IN  \E i \in 1..Len(pls) :
                /\ pls[i].ID = req.playlistID
                /\ pls[i].Songs = resp.body.Songs

\* C5: when every caller stands at mu.Lock() and each then runs
\* createPlaylist with the same valid secret code, once all have returned
\* the user's playlists are those of before followed by the NumProcs
\* playlists returned, in the order of return, and their identifiers are
\* pairwise distinct and distinct from those of the user's playlists of
\* before.
C5_NoLostPlaylist ==
    (batch.on /\ Len(batch.added) = NumProcs) =>
        LET before == batch.base[batch.secretCode].Playlists
            now == users[batch.secretCode].Playlists
            ids == {batch.added[n].ID : n \in 1..NumProcs}
        IN  /\ Len(now) = Len(before) + NumProcs
            /\ now = before \o batch.added
            /\ Cardinality(ids) = NumProcs
            /\ ids \cap {before[n].ID : n \in 1..Len(before)} = {}

C5_Witness ==
    /\ batch.on
    /\ Len(batch.added) = NumProcs
    /\ \A p \in Procs : pc[p] = "idle"
    /\ Len(users[batch.secretCode].Playlists) >= NumProcs + 1

\* Whether the handler of caller p is between mu.Lock() and mu.Unlock().
InSection(p) ==
    pc[p] \in {"decode", "lookup", "body", "unlock"}

\* C6: at most one handler is between mu.Lock() and mu.Unlock(), mu is
\* held exactly then, and the store and every response are those of the
\* calls run one after another in the order the lock was acquired.
C6_SerialInLockOrder ==
    /\ Cardinality({p \in Procs : InSection(p)}) <= 1
    /\ mu <=> (\E p \in Procs : InSection(p))
    /\ \A p \in Procs :
          pc[p] = "unlock" =>
              /\ users = serial.users
              /\ randSrc = serial.randSrc
              /\ cresp[p] = serial.resp
    /\ ~mu => (users = serial.users /\ randSrc = serial.randSrc)

C6_Witness ==
    \E p \in Procs :
        /\ pc[p] = "unlock"
        /\ creq[p].op = "deleteSongFromPlaylist"
        /\ cresp[p].status = "StatusOK"
        /\ \A q \in Procs \ {p} : pc[q] = "lock"

\* C7: after a successful register the new user, as returned and as
\* stored, owns exactly one playlist, and it holds exactly one song.
C7_RegisterYieldsOneDefaultPlaylist ==
    (mu /\ req.op = "register" /\ resp.status = "StatusOK") =>
        /\ users[resp.body.SecretCode] = resp.body
        /\ Len(resp.body.Playlists) = 1
        /\ Len(resp.body.Playlists[1].Songs) = 1

\* C8: a register whose body decodes gives the new user an identifier and
\* a secret code drawn during the call, different from each other, from
\* every identifier in the store and from what the body carried; the map
\* gains exactly the key of the new secret code, and the value stored
\* there is the user returned.
C8_RegisterAssignsFreshCredentials ==
    ~mu =>
    \A r \in RequestsOf(users, "register") :
        r.body.ok =>
            LET out == RegisterHandler(users, randSrc, r)
                u == out.resp.body
            IN  /\ out.resp.status = "StatusOK"
                /\ u.ID \in (randSrc + 1)..out.randSrc
                /\ u.SecretCode \in (randSrc + 1)..out.randSrc
                /\ u.ID # u.SecretCode
                /\ u.ID \notin AllIDs(users)
                /\ u.SecretCode \notin AllIDs(users)
                /\ r.body.val.ID # 0 => u.ID # r.body.val.ID
                /\ r.body.val.SecretCode # 0 => u.SecretCode # r.body.val.SecretCode
                /\ DOMAIN out.users = (DOMAIN users) \cup {u.SecretCode}
                /\ out.users[u.SecretCode] = u

C8_Witness ==
    /\ mu
    /\ req.op = "register"
    /\ resp.status = "StatusOK"
    /\ req.body.val.SecretCode \in (DOMAIN users) \ {resp.body.SecretCode}
    /\ users[resp.body.SecretCode] = resp.body
    /\ users[req.body.val.SecretCode].ID = req.body.val.ID

\* C9: the song a successful addSongToPlaylist returns and stores carries
\* an identifier that is no identifier of the store before the call, also
\* when the body carried the identifier of an existing song.
C9_AddSongAssignsFreshID ==
    ~mu =>
    \A r \in RequestsOf(users, "addSongToPlaylist") :
        LET out == AddSongToPlaylist(users, randSrc, r)
        IN  out.resp.status = "StatusOK" =>
                /\ out.resp.body.ID \notin AllIDs(users)
                /\ out.resp.body.ID \in SongIDsOf(out.users[r.secretCode])

C9_Witness ==
    /\ mu
    /\ req.op = "addSongToPlaylist"
    /\ resp.status = "StatusOK"
    /\ req.body.val.ID # 0
    /\ resp.body.ID # req.body.val.ID
    /\ req.body.val.ID \in SongIDsOf(users[req.secretCode])
    /\ resp.body.ID \in SongIDsOf(users[req.secretCode])

\* C10: for every secret code loginHandler and viewProfile write the same
\* response, the stored user for a valid code and 401 "Invalid secret
\* code" for any other, and leave the store and randSrc as they were.
C10_LoginEqualsViewProfile ==
    ~mu =>
    \A sc \in AnySecretCode :
        LET a == LoginHandler(users, randSrc, Request("login", sc, 0, 0, "", NoBody))
            b == ViewProfile(users, randSrc, Request("viewProfile", sc, 0, 0, "", NoBody))
        IN  /\ a.resp = b.resp
            /\ sc \in DOMAIN users => a.resp = [status |-> "StatusOK", body |-> users[sc]]
            /\ sc \notin DOMAIN users =>
                  a.resp = [status |-> "StatusUnauthorized",
                            body |-> [error |-> "Invalid secret code"]]
            /\ a.users = users /\ b.users = users
            /\ a.randSrc = randSrc /\ b.randSrc = randSrc

C10_Witness ==
    /\ mu
    /\ req.op = "viewProfile"
    /\ resp.status = "StatusOK"
    /\ Len(resp.body.Playlists) >= 2
    /\ resp.body = users[req.secretCode]
    /\ Cardinality(DOMAIN users) = 2

\* The places <<playlist, song>> of the songs of pls with identifier id.
PlacesOfSong(pls, id) ==
    UNION {{<<i, j>> : j \in {j \in 1..Len(pls[i].Songs) : pls[i].Songs[j].ID = id}} :
            i \in 1..Len(pls)}

\* C11: getSongDetail with a valid secret code returns the song with the
\* identifier songID that comes first in the user's playlists, taken in
\* stored order, each playlist's songs in order; it answers 404 "Invalid
\* song ID" when no playlist of that user holds one (other users' songs do
\* not count) and 401 when the secret code matches no user; the store is
\* left as it was.
C11_GetSongDetailFirstMatch ==
    ~mu =>
    \A r \in RequestsOf(users, "getSongDetail") :
        LET out == GetSongDetail(users, randSrc, r)
        IN  /\ out.users = users
            /\ out.randSrc = randSrc
            /\ r.secretCode \notin DOMAIN users =>
                  out.resp = [status |-> "StatusUnauthorized",
                              body |-> [error |-> "Invalid secret code"]]
            /\ r.secretCode \in DOMAIN users =>
                  LET pls == users[r.secretCode].Playlists
                      hits == PlacesOfSong(pls, r.songID)
                  IN  IF hits = {}
                      THEN out.resp = [status |-> "StatusNotFound",
                                       body |-> [error |-> "Invalid song ID"]]
                      ELSE \E h \in hits :
                              /\ \A g \in hits :
                                    h[1] < g[1] \/ (h[1] = g[1] /\ h[2] <= g[2])
                              /\ out.resp = [status |-> "StatusOK",
                                             body |-> pls[h[1]].Songs[h[2]]]

C11_Witness ==
    /\ mu
    /\ req.op = "getSongDetail"
    /\ resp.status = "StatusOK"
    /\ Cardinality(PlacesOfSong(users[req.secretCode].Playlists, req.songID)) >= 2
    /\ \E k \in (DOMAIN users) \ {req.secretCode} : req.songID \in SongIDsOf(users[k])

\* The generic failure of deleteSongFromPlaylist.
InvalidRequest == [status |-> "StatusBadRequest", body |-> [error |-> "Invalid request"]]

\* The playlists of the user with secret code sc that carry the identifier
\* playlistID, as places in the user's playlist sequence.
PlaylistsWithID(us, sc, playlistID) ==
    IF sc \in DOMAIN us
    THEN {i \in 1..Len(us[sc].Playlists) : us[sc].Playlists[i].ID = playlistID}
    ELSE {}

\* C12 as stated: removeSong answers the generic "Invalid request" and
\* leaves the store as it was whenever the secret code is unknown, or the
\* user has no playlist with the playlist identifier, or no playlist with
\* that identifier holds a song with the song identifier.
C12_UnresolvedIsGeneric ==
    ~mu =>
    \A r \in RequestsOf(users, "deleteSongFromPlaylist") :
        LET out == DeleteSongFromPlaylist(users, randSrc, r)
            at == PlaylistsWithID(users, r.secretCode, r.playlistID)
        IN  (\A i \in at : \A j \in 1..Len(users[r.secretCode].Playlists[i].Songs) :
                users[r.secretCode].Playlists[i].Songs[j].ID # r.songID)
            => /\ out.resp = InvalidRequest
               /\ out.users = users

\* C12: removeSong answers the generic "Invalid request" exactly when the
\* secret code is unknown, or the user has no playlist with the playlist
\* identifier, or no playlist with that identifier either holds exactly one
\* song or holds a song with the song identifier; a playlist with that
\* identifier that holds exactly one song is answered with "Playlist cannot
\* be empty" before its songs are looked at; every failing removeSong
\* leaves the store as it was.
C12_GenericWhenNothingStops ==
    ~mu =>
    \A r \in RequestsOf(users, "deleteSongFromPlaylist") :
        LET out == DeleteSongFromPlaylist(users, randSrc, r)
            at == PlaylistsWithID(users, r.secretCode, r.playlistID)
            stops == {i \in at :
                        LET songs == users[r.secretCode].Playlists[i].Songs
                        IN  \/ Len(songs) = 1
                            \/ \E j \in 1..Len(songs) : songs[j].ID = r.songID}
        IN  /\ out.resp = InvalidRequest <=> stops = {}
            /\ out.resp.status # "StatusOK" =>
                  /\ out.users = users
                  /\ out.randSrc = randSrc
                  /\ out.resp.status = "StatusBadRequest"
            /\ (\E i \in stops :
                    /\ \A m \in stops : i <= m
                    /\ Len(users[r.secretCode].Playlists[i].Songs) = 1)
               => out.resp.body = [error |-> "Playlist cannot be empty"]

C12_Witness ==
    /\ mu
    /\ req.op = "deleteSongFromPlaylist"
    /\ resp = InvalidRequest
    /\ \E i \in PlaylistsWithID(users, req.secretCode, req.playlistID) :
          Len(users[req.secretCode].Playlists[i].Songs) >= 2

\* C13: createPlaylist with a valid secret code makes a playlist with an
\* identifier nobody holds, the given name and exactly one default song,
\* puts it at the end of that user's playlists, leaves the playlists the
\* user had as they were and in order, and returns the new playlist; with a
\* secret code that matches no user it answers 401 and adds nothing.
C13_CreatePlaylistAppends ==
    ~mu =>
    \A r \in RequestsOf(users, "createPlaylist") :
        LET out == CreatePlaylist(users, randSrc, r)
            p == out.resp.body
        IN  IF r.secretCode \in DOMAIN users
            THEN LET old == users[r.secretCode]
                     new == out.users[r.secretCode]
                 IN  /\ out.resp.status = "StatusOK"
                     /\ p.ID \notin AllIDs(users)
                     /\ p.Name = r.playlistName
                     /\ Len(p.Songs) = 1
                     /\ p.Songs[1].Name = "Default Song"
                     /\ p.Songs[1].Composer = "Default Composer"
                     /\ p.Songs[1].URL = "http://default.url"
                     /\ Len(new.Playlists) = Len(old.Playlists) + 1
                     /\ new.Playlists[Len(new.Playlists)] = p
                     /\ \A i \in 1..Len(old.Playlists) :
                           new.Playlists[i] = old.Playlists[i]
                     /\ DOMAIN out.users = DOMAIN users
                     /\ \A k \in (DOMAIN users) \ {r.secretCode} :
                           out.users[k] = users[k]
            ELSE /\ out.resp = [status |-> "StatusUnauthorized",
                                body |-> [error |-> "Invalid secret code"]]
                 /\ out.users = users

C13_Witness ==
    /\ mu
    /\ req.op = "createPlaylist"
    /\ resp.status = "StatusOK"
    /\ Len(users[req.secretCode].Playlists) >= 2
    /\ users[req.secretCode].Playlists[Len(users[req.secretCode].Playlists)] = resp.body

\* C14 as stated: addSong with a valid secret code and the identifier of a
\* playlist of that user puts the new song at the end of that playlist's
\* songs (one song more, the songs it had unchanged and in order) and
\* returns it; it answers 401 when the secret code matches no user and 404
\* when the user has no playlist with that identifier, and adds no song in
\* either case.
C14_AddSongAsStated ==
    ~mu =>
    \A r \in RequestsOf(users, "addSongToPlaylist") :
        LET out == AddSongToPlaylist(users, randSrc, r)
            at == PlaylistsWithID(users, r.secretCode, r.playlistID)
        IN  /\ r.secretCode \notin DOMAIN users =>
                  /\ out.resp = [status |-> "StatusUnauthorized",
                                 body |-> [error |-> "Invalid secret code"]]
                  /\ out.users = users
            /\ (r.secretCode \in DOMAIN users /\ at = {}) =>
                  /\ out.resp = [status |-> "StatusNotFound",
                                 body |-> [error |-> "Invalid playlist ID"]]
                  /\ out.users = users
            /\ at # {} =>
                  LET old == users[r.secretCode]
                      new == out.users[r.secretCode]
                      i == CHOOSE i \in at : \A m \in at : i <= m
                  IN  /\ out.resp.status = "StatusOK"
                      /\ Len(new.Playlists[i].Songs) = Len(old.Playlists[i].Songs) + 1
                      /\ new.Playlists[i].Songs[Len(new.Playlists[i].Songs)] = out.resp.body
                      /\ \A j \in 1..Len(old.Playlists[i].Songs) :
                            new.Playlists[i].Songs[j] = old.Playlists[i].Songs[j]

\* C14: a request to addSong whose body does not decode is answered 400
\* "Invalid request body" whatever its secret code and playlist identifier,
\* and adds no song.  When the body decodes, addSong with a valid secret
\* code and the identifier of a playlist of that user puts the new song at
\* the end of the songs of the first playlist with that identifier (one
\* song more, the songs it had unchanged and in order) and returns it; it
\* answers 401 when the secret code matches no user and 404 when the user
\* has no playlist with that identifier, and adds no song in either case.
C14_AddSongAppends ==
    ~mu =>
    \A r \in RequestsOf(users, "addSongToPlaylist") :
        LET out == AddSongToPlaylist(users, randSrc, r)
            at == PlaylistsWithID(users, r.secretCode, r.playlistID)
        IN  /\ ~r.body.ok =>
                  /\ out.resp = [status |-> "StatusBadRequest",
                                 body |-> [error |-> "Invalid request body"]]
                  /\ out.users = users
            /\ (r.body.ok /\ r.secretCode \notin DOMAIN users) =>
                  /\ out.resp = [status |-> "StatusUnauthorized",
                                 body |-> [error |-> "Invalid secret code"]]
                  /\ out.users = users
            /\ (r.body.ok /\ r.secretCode \in DOMAIN users /\ at = {}) =>
                  /\ out.resp = [status |-> "StatusNotFound",
                                 body |-> [error |-> "Invalid playlist ID"]]
                  /\ out.users = users
            /\ (r.body.ok /\ at # {}) =>
                  LET old == users[r.secretCode]
                      new == out.users[r.secretCode]
                      i == CHOOSE i \in at : \A m \in at : i <= m
                      s == out.resp.body
                  IN  /\ out.resp.status = "StatusOK"
                      /\ s.Name = r.body.val.Name
                      /\ s.Composer = r.body.val.Composer
                      /\ s.URL = r.body.val.URL
                      /\ Len(new.Playlists[i].Songs) = Len(old.Playlists[i].Songs) + 1
                      /\ new.Playlists[i].Songs[Len(new.Playlists[i].Songs)] = s
                      /\ \A j \in 1..Len(old.Playlists[i].Songs) :
                            new.Playlists[i].Songs[j] = old.Playlists[i].Songs[j]
                      /\ new = [old EXCEPT !.Playlists[i].Songs = new.Playlists[i].Songs]
                      /\ DOMAIN out.users = DOMAIN users
                      /\ \A k \in (DOMAIN users) \ {r.secretCode} :
                            out.users[k] = users[k]

C14_Witness ==
    /\ mu
    /\ req.op = "addSongToPlaylist"
    /\ resp.status = "StatusOK"
    /\ \E i \in PlaylistsWithID(users, req.secretCode, req.playlistID) :
          LET songs == users[req.secretCode].Playlists[i].Songs
          IN  Len(songs) >= 2 /\ songs[Len(songs)] = resp.body

\* C15: removePlaylist with a valid secret code and the identifier of a
\* playlist of that user removes the first playlist with that identifier,
\* however many songs it holds, keeps the user's other playlists unchanged
\* and in order, may leave the user without playlists, and returns the
\* updated user; it answers 401 for a secret code of no user and 404 when
\* the user has no playlist with that identifier.
C15_RemovePlaylistRemovesFirstMatch ==
    ~mu =>
    \A r \in RequestsOf(users, "deletePlaylist") :
        LET out == DeletePlaylist(users, randSrc, r)
            at == PlaylistsWithID(users, r.secretCode, r.playlistID)
        IN  /\ r.secretCode \notin DOMAIN users =>
                  /\ out.resp = [status |-> "StatusUnauthorized",
                                 body |-> [error |-> "Invalid secret code"]]
                  /\ out.users = users
            /\ (r.secretCode \in DOMAIN users /\ at = {}) =>
                  /\ out.resp = [status |-> "StatusNotFound",
                                 body |-> [error |-> "Invalid playlist ID"]]
                  /\ out.users = users
            /\ at # {} =>
                  LET old == users[r.secretCode]
                      new == out.users[r.secretCode]
                      i == CHOOSE i \in at : \A m \in at : i <= m
                  IN  /\ out.resp = [status |-> "StatusOK", body |-> new]
                      /\ Len(new.Playlists) = Len(old.Playlists) - 1
                      /\ \A j \in 1..Len(new.Playlists) :
                            new.Playlists[j] = old.Playlists[IF j < i THEN j ELSE j + 1]
                      /\ new = [old EXCEPT !.Playlists = new.Playlists]
                      /\ DOMAIN out.users = DOMAIN users
                      /\ \A k \in (DOMAIN users) \ {r.secretCode} :
                            out.users[k] = users[k]

C15_Witness ==
    /\ mu
    /\ req.op = "deletePlaylist"
    /\ resp.status = "StatusOK"
    /\ users[req.secretCode].Playlists = << >>
    /\ resp.body = users[req.secretCode]

\* The concurrent handlers under the scheduling the Go runtime gives them:
\* a goroutine that can take a step is run sooner or later, so a handler
\* whose next step is its own (the lookup, the body, the deferred
\* mu.Unlock()) takes it, and a goroutine blocked in mu.Lock() is not
\* passed over forever (sync.Mutex hands the mutex to a waiter that has
\* been starved).  Decode is not the runtime's to schedule: it waits for
\* the client to send the body, and nothing makes the client send it.
FairConcSpec ==
    /\ ConcSpec
    /\ \A p \in Procs :
          /\ WF_vars(LookupUser(p))
          /\ WF_vars(RunBody(p))
          /\ WF_vars(Unlock(p))
          /\ SF_vars(Lock(p))

\* C16: the mutex is held exactly while one handler is between mu.Lock()
\* and its deferred mu.Unlock(), so it is released on every exit path,
\* success or failure; under fair scheduling every handler that was called
\* acquires the mutex, every handler that holds it completes and releases
\* it, and no caller waits forever.
C16_EveryCallCompletes ==
    /\ [](mu <=> \E p \in Procs : InSection(p))
    /\ \A p \in Procs : (pc[p] = "lock") ~> InSection(p)
    /\ \A p \in Procs : InSection(p) ~> (pc[p] = "idle" /\ ~mu)

\* C17: in every reachable state no two playlists of the store have the
\* same identifier and no two songs of the store have the same identifier.
C17_NoDuplicateIdentifiers ==
    /\ \A k \in DOMAIN users :
          /\ \A i, m \in 1..Len(users[k].Playlists) :
                i # m => users[k].Playlists[i].ID # users[k].Playlists[m].ID
          /\ \A id \in SongIDsOf(users[k]) :
                Cardinality(PlacesOfSong(users[k].Playlists, id)) = 1
    /\ \A k, n \in DOMAIN users :
          k # n => /\ PlaylistIDsOf(users[k]) \cap PlaylistIDsOf(users[n]) = {}
                   /\ SongIDsOf(users[k]) \cap SongIDsOf(users[n]) = {}

\* C18: every call that is answered with an error, whichever the operation
\* and whichever the error (401, 404, 400 for a one-song playlist, for an
\* unresolved removal or for a body that does not decode), leaves the whole
\* store exactly as it was before the call.
C18_FailureLeavesStoreUnchanged ==
    ~mu =>
    \A r \in Requests(users) :
        LET out == Handle(users, randSrc, r)
        IN  out.resp.status # "StatusOK" => out.users = users

C18_Witness ==
    /\ mu
    /\ req.op \in {"register", "addSongToPlaylist"}
    /\ ~req.body.ok
    /\ resp.status = "StatusBadRequest"
    /\ Cardinality(DOMAIN users) = 2

\* C19: an operation called with user A's secret code changes at most the
\* record of A: every other user is still there with the same fields,
\* playlists and songs, after createPlaylist, addSong, removeSong and
\* removePlaylist as after every other operation; register leaves every
\* user registered before unchanged, whatever its body carries.
C19_OtherUsersUnchanged ==
    ~mu =>
    \A r \in Requests(users) :
        LET out == Handle(users, randSrc, r)
        IN  /\ \A k \in (DOMAIN users) \ {r.secretCode} :
                  k \in DOMAIN out.users /\ out.users[k] = users[k]
            /\ r.op = "register" =>
                  \A k \in DOMAIN users :
                      k \in DOMAIN out.users /\ out.users[k] = users[k]
            /\ r.op # "register" => DOMAIN out.users = DOMAIN users

C19_Witness ==
    /\ mu
    /\ req.op \in {"createPlaylist", "addSongToPlaylist",
                   "deleteSongFromPlaylist", "deletePlaylist"}
    /\ resp.status = "StatusOK"
    /\ Cardinality(DOMAIN users) = 2

\* The sequence s without its j-th element.
Without(s, j) ==
    [m \in 1..(Len(s) - 1) |-> IF m < j THEN s[m] ELSE s[m + 1]]

\* What one operation may do to a sequence of entities: leave it, remove
\* one element, or put one at the end.  The elements that stay keep their
\* fields, the identifier among them, and their order.
SameOrOneRemoved(s, t) ==
    \/ t = s
    \/ \E j \in 1..Len(s) : t = Without(s, j)

SameOrOneAdded(s, t) ==
    \/ t = s
    \/ Len(t) = Len(s) + 1 /\ SubSeq(t, 1, Len(s)) = s

\* What one operation may do to a user's playlists: remove one playlist,
\* add one at the end, or remove one song from or add one song to a
\* playlist that keeps its place, identifier and name.
PlaylistsKeepIdentifiers(old, new) ==
    \/ SameOrOneRemoved(old, new)
    \/ SameOrOneAdded(old, new)
    \/ /\ Len(new) = Len(old)
       /\ \A i \in 1..Len(old) :
             /\ new[i].ID = old[i].ID
             /\ new[i].Name = old[i].Name
             /\ \/ SameOrOneRemoved(old[i].Songs, new[i].Songs)
                \/ SameOrOneAdded(old[i].Songs, new[i].Songs)

\* After a step, login with the secret code k answers with the user u.
LoginReturns(us, rs, k, u) ==
    LET out == LoginHandler(us, rs, Request("login", k, 0, 0, "", NoBody))
    IN  /\ out.resp.status = "StatusOK"
        /\ out.resp.body.ID = u.ID
        /\ out.resp.body.SecretCode = k
        /\ out.resp.body.Name = u.Name
        /\ out.resp.body.Email = u.Email

\* C20: once a user is registered under the secret code S, every later
\* step of every operation keeps the user in the store under S with the
\* same user identifier, secret code, name and email, login with S
\* succeeds and returns them, and the playlists and songs that stay in the
\* store keep their identifiers.
C20_UsersAndIdentifiersPersist ==
    [][\A k \in DOMAIN users :
          /\ k \in DOMAIN users'
          /\ users[k].SecretCode = k
          /\ users'[k].ID = users[k].ID
          /\ users'[k].SecretCode = users[k].SecretCode
          /\ users'[k].Name = users[k].Name
          /\ users'[k].Email = users[k].Email
          /\ LoginReturns(users', randSrc', k, users[k])
          /\ PlaylistsKeepIdentifiers(users[k].Playlists, users'[k].Playlists)]_vars

C20_Witness ==
    /\ mu
    /\ req.op = "login"
    /\ resp.status = "StatusOK"
    /\ resp.body = users[req.secretCode]
    /\ users[req.secretCode].Playlists = << >>
    /\ Cardinality(DOMAIN users) = 2

====
